---------------------------- MODULE Spec2Model ----------------------------
(***************************************************************************)
(* libhal/llvm-toolchain: the demo and test-package programs and the       *)
(* bare-metal stdio/runtime shim they carry behind #if defined(__ARM_EABI__)*)
(*                                                                         *)
(* A behaviour is one build followed by one run: the compilation units are *)
(* compiled (the macro is fixed for the whole build), one executable is    *)
(* started, and its statements run one at a time.                          *)
(***************************************************************************)
EXTENDS Integers, Sequences, FiniteSets, TLC

VARIABLES
  armEabi,    \* whether __ARM_EABI__ is defined for this build
  objs,       \* compiled unit -> the set of symbols its object defines
  loopKept,   \* whether the build kept the side-effect-free loop of _exit
  prog,       \* the executable that runs (NoProg while building)
  pc,         \* "build", "main", "returned", "terminated", "runtime",
              \* "_exit", "exit_returned"
  stmt,       \* index of the next statement of main
  handles,    \* value of the FILE* objects stdout and stderr
  locals,     \* the local integers of main that are in scope
  out,        \* the bytes written to standard output
  calls,      \* the library calls main has made: <<[op, stream]>>
  nullDeref,  \* a step has read through a null stream handle
  ret,        \* the value main returned (NoCode before it returns)
  exitCode,   \* the exit code of the terminated process (NoCode before)
  exitArg,    \* the argument _exit was called with (NoCode before)
  ttyLog      \* the calls of isatty so far: <<[fd, result]>>

vars == <<armEabi, objs, loopKept, prog, pc, stmt, handles, locals, out,
          calls, nullDeref, ret, exitCode, exitArg, ttyLog>>

----------------------------------------------------------------------------
(* Bounds of the model. *)

\* isatty is called at most this many times in a run
MaxCalls == 3
\* file descriptors -1 .. MaxFd (and the two extreme ints) are tried
MaxFd == 2
\* exit statuses -1 .. MaxStatus are tried
MaxStatus == 2

\* the extreme values of the int parameter of isatty and _exit
IntMax == 2147483647
IntMin == -IntMax - 1

FdSet == {IntMin, IntMax} \cup (-1 .. MaxFd)
StatusSet == {IntMin, IntMax} \cup (-1 .. MaxStatus)

----------------------------------------------------------------------------
(* Values. *)

nullptr == "nullptr"
HostStream == "host"          \* a stream handle of the toolchain's library
Unlinked == "unlinked"
NoProg == "none"
NoCode == "none"
NoStream == "none"            \* a call that takes no FILE* operand

\* UTF-8 code points of demos/cpp/main.cpp line 14, written in ASCII
WavingHand == "<U+1F44B>"
Globe == "<U+1F310>"

----------------------------------------------------------------------------
(* The compilation units and what each defines. *)

TestPackageUnit == "all/test_package/main.cpp"
DemoMainUnit == "demos/cpp/main.cpp"
DemoPolyfillUnit == "demos/cpp/stdio_polyfill.cpp"
ModulesPolyfillUnit == "demos/cpp-modules/stdio_polyfill.cpp"

Units == {TestPackageUnit, DemoMainUnit, DemoPolyfillUnit, ModulesPolyfillUnit}

StreamSymbols == {"stderr", "stdout"}
RuntimeSymbols == {"_exit", "isatty"}
ShimSymbols == StreamSymbols \cup RuntimeSymbols

\* mutant: the guard of test_package/main.cpp is lost
DefinesNoGuard(u, macro) ==
  CASE u = TestPackageUnit     -> {"main", "stderr", "stdout"}
    [] u = DemoMainUnit        -> {"main"} \cup (IF macro THEN StreamSymbols ELSE {})
    [] u = DemoPolyfillUnit    -> IF macro THEN StreamSymbols ELSE {}
    [] u = ModulesPolyfillUnit -> IF macro THEN ShimSymbols ELSE {}

\* mutant: demos/cpp/stdio_polyfill.cpp forgets stderr
DefinesNoStderr(u, macro) ==
  CASE u = TestPackageUnit     -> {"main"} \cup (IF macro THEN StreamSymbols ELSE {})
    [] u = DemoMainUnit        -> {"main"} \cup (IF macro THEN StreamSymbols ELSE {})
    [] u = DemoPolyfillUnit    -> IF macro THEN {"stdout"} ELSE {}
    [] u = ModulesPolyfillUnit -> IF macro THEN ShimSymbols ELSE {}

\* the symbols unit u defines when __ARM_EABI__ is (macro) or is not defined
Defines(u, macro) ==
  CASE u = TestPackageUnit     -> {"main"} \cup (IF macro THEN StreamSymbols ELSE {})
    [] u = DemoMainUnit        -> {"main"} \cup (IF macro THEN StreamSymbols ELSE {})
    [] u = DemoPolyfillUnit    -> IF macro THEN StreamSymbols ELSE {}
    [] u = ModulesPolyfillUnit -> IF macro THEN ShimSymbols ELSE {}

\* mutant: stderr is initialised with a live handle
ShimStreamValueLive(h) == IF h = "stderr" THEN HostStream ELSE nullptr

\* the initialiser of the shim's definition of stream handle h
ShimStreamValue(h) == nullptr

----------------------------------------------------------------------------
(* The executables. *)

TestPackage == "test_package"
TestPackageC == "test_package_c"
DemoCpp == "demos_cpp"
CppModules == "demos_cpp_modules"

Programs == {TestPackage, TestPackageC, DemoCpp, CppModules}

\* the units of src/ an executable is linked from
LinkedUnits(p) ==
  CASE p = TestPackage  -> {TestPackageUnit}
    [] p = DemoCpp      -> {DemoMainUnit}
    [] p = CppModules   -> {ModulesPolyfillUnit}
    [] p = TestPackageC -> {}

\* the symbols of the shim that are linked into executable p
Linked(p) == UNION {objs[u] : u \in LinkedUnits(p)} \cap ShimSymbols

----------------------------------------------------------------------------
(* The library calls the mains make: std::puts and std::printf with %d.    *)

DigitChar == <<"0", "1", "2", "3", "4", "5", "6", "7", "8", "9">>

RECURSIVE Digits(_)
\* the decimal digits of n >= 0, most significant first
Digits(n) ==
  IF n < 10 THEN DigitChar[n + 1]
  ELSE Digits(n \div 10) \o DigitChar[(n % 10) + 1]

\* mutant: the digits come out least significant first
FormatIntReversed(n) ==
  LET RECURSIVE Rev(_)
      Rev(m) == IF m < 10 THEN DigitChar[m + 1]
                ELSE DigitChar[(m % 10) + 1] \o Rev(m \div 10)
  IN IF n < 0 THEN "-" \o Rev(-n) ELSE Rev(n)

\* the %d conversion of an int
FormatInt(n) == IF n < 0 THEN "-" \o Digits(-n) ELSE Digits(n)

RECURSIVE Format(_, _)
\* the text printf writes for a format (cut into literal pieces and %d
\* conversions) and the values of its arguments
Format(fmt, args) ==
  IF fmt = <<>> THEN ""
  ELSE IF Head(fmt) = "%d"
       THEN FormatInt(Head(args)) \o Format(Tail(fmt), Tail(args))
       ELSE Head(fmt) \o Format(Tail(fmt), args)

\* standard output after puts(s): the string and a newline
Puts(o, s) == o \o s \o "\n"

\* standard output after printf(fmt, args...)
Printf(o, fmt, args) == o \o Format(fmt, args)

----------------------------------------------------------------------------
(* The bodies of main, one record per statement.  stream is the FILE*       *)
(* operand of a call (NoStream: the call has none).                         *)

\* mutant: line 16 writes through the stdout handle
TestPackageMainFputs == <<
  [line |-> 12, op |-> "decl", var |-> "a", val |-> 5],
  [line |-> 13, op |-> "decl", var |-> "b", val |-> 12],
  [line |-> 14, op |-> "add", var |-> "c", lhs |-> "a", rhs |-> "b"],
  [line |-> 16, op |-> "puts", stream |-> "stdout", s |-> "Hello, world!"],
  [line |-> 17, op |-> "printf", stream |-> NoStream,
   fmt |-> <<"a = ", "%d", ", b = ", "%d", "\n">>, args |-> <<"a", "b">>],
  [line |-> 18, op |-> "printf", stream |-> NoStream,
   fmt |-> <<"a + b = c = ", "%d", "\n">>, args |-> <<"c">>],
  [line |-> 20, op |-> "return", kind |-> "lit", v |-> 0] >>

\* main of all/test_package/main.cpp
TestPackageMain == <<
  [line |-> 12, op |-> "decl", var |-> "a", val |-> 5],
  [line |-> 13, op |-> "decl", var |-> "b", val |-> 12],
  [line |-> 14, op |-> "add", var |-> "c", lhs |-> "a", rhs |-> "b"],
  [line |-> 16, op |-> "puts", stream |-> NoStream, s |-> "Hello, world!"],
  [line |-> 17, op |-> "printf", stream |-> NoStream,
   fmt |-> <<"a = ", "%d", ", b = ", "%d", "\n">>, args |-> <<"a", "b">>],
  [line |-> 18, op |-> "printf", stream |-> NoStream,
   fmt |-> <<"a + b = c = ", "%d", "\n">>, args |-> <<"c">>],
  [line |-> 20, op |-> "return", kind |-> "lit", v |-> 0] >>

\* main of the C variant of the test package: the same statements, but it
\* returns the sum
TestPackageMainC == <<
  [line |-> 12, op |-> "decl", var |-> "a", val |-> 5],
  [line |-> 13, op |-> "decl", var |-> "b", val |-> 12],
  [line |-> 14, op |-> "add", var |-> "c", lhs |-> "a", rhs |-> "b"],
  [line |-> 16, op |-> "puts", stream |-> NoStream, s |-> "Hello, world!"],
  [line |-> 17, op |-> "printf", stream |-> NoStream,
   fmt |-> <<"a = ", "%d", ", b = ", "%d", "\n">>, args |-> <<"a", "b">>],
  [line |-> 18, op |-> "printf", stream |-> NoStream,
   fmt |-> <<"a + b = c = ", "%d", "\n">>, args |-> <<"c">>],
  [line |-> 20, op |-> "return", kind |-> "var", v |-> "c"] >>

\* mutant: the banner lines sit inside the #if defined(__ARM_EABI__) block
DemoMainGated ==
  (IF armEabi THEN <<>> ELSE <<
  [line |-> 12, op |-> "puts", stream |-> NoStream,
   s |-> "\n========== RUNNING DEMO =========="]>>) \o <<
  [line |-> 13, op |-> "puts", stream |-> NoStream, s |-> "LLVM Toolchain Demo!"],
  [line |-> 14, op |-> "puts", stream |-> NoStream,
   s |-> WavingHand \o " Hello, " \o Globe \o " World"],
  [line |-> 15, op |-> "puts", stream |-> NoStream,
   s |-> "========== DEMO FINISHED ==========\n"],
  [line |-> 16, op |-> "return", kind |-> "lit", v |-> 0] >>

\* main of demos/cpp/main.cpp
DemoMain == <<
  [line |-> 12, op |-> "puts", stream |-> NoStream,
   s |-> "\n========== RUNNING DEMO =========="],
  [line |-> 13, op |-> "puts", stream |-> NoStream, s |-> "LLVM Toolchain Demo!"],
  [line |-> 14, op |-> "puts", stream |-> NoStream,
   s |-> WavingHand \o " Hello, " \o Globe \o " World"],
  [line |-> 15, op |-> "puts", stream |-> NoStream,
   s |-> "========== DEMO FINISHED ==========\n"],
  [line |-> 16, op |-> "return", kind |-> "lit", v |-> 0] >>

\* the statements of the main of executable p (the cpp-modules shim has none)
Body(p) ==
  CASE p = TestPackage  -> TestPackageMain
    [] p = TestPackageC -> TestPackageMainC
    [] p = DemoCpp      -> DemoMain
    [] OTHER            -> <<>>

\* the statement main is about to run
Cur == Body(prog)[stmt]

InMain(op) ==
  /\ pc = "main"
  /\ stmt \in 1 .. Len(Body(prog))
  /\ Cur.op = op

\* the record of a library call and whether it read through a null handle
Called(s) ==
  /\ calls' = Append(calls, [op |-> s.op, stream |-> s.stream])
  /\ nullDeref' = (nullDeref \/ (s.stream # NoStream /\ handles[s.stream] = nullptr))

----------------------------------------------------------------------------
(* The shim's runtime functions (demos/cpp-modules/stdio_polyfill.cpp).    *)

\* mutant: only the three standard descriptors are terminals
isattyStdOnly(fd) == IF fd \in 0 .. 2 THEN 1 ELSE 0

\* int isatty(int) { return 1; }
isatty(fd) == 1

----------------------------------------------------------------------------
(* The build. *)

Init ==
  /\ armEabi \in BOOLEAN
  /\ objs = <<>>
  /\ loopKept = TRUE
  /\ prog = NoProg
  /\ pc = "build"
  /\ stmt = 1
  /\ handles = [h \in StreamSymbols |-> Unlinked]
  /\ locals = <<>>
  /\ out = ""
  /\ calls = <<>>
  /\ nullDeref = FALSE
  /\ ret = NoCode
  /\ exitCode = NoCode
  /\ exitArg = NoCode
  /\ ttyLog = <<>>

\* The loop of _exit, while (true) { continue; }, has no side effect and
\* its body is not empty: the language lets the compiler assume it ends
\* ([intro.progress]), so a build either keeps it or drops it, after which
\* _exit runs on into the code that follows it.
LoopOutcomes(u) ==
  IF "_exit" \in Defines(u, armEabi) THEN BOOLEAN ELSE {loopKept}

\* one unit is compiled, with the macro as the build defines it
Compile(u) ==
  /\ pc = "build"
  /\ u \notin DOMAIN objs
  /\ objs' = (u :> Defines(u, armEabi)) @@ objs
  /\ loopKept' \in LoopOutcomes(u)
  /\ UNCHANGED <<armEabi, prog, pc, stmt, handles, locals, out, calls,
                 nullDeref, ret, exitCode, exitArg, ttyLog>>

\* executable p is linked from its units and started: the stream handles
\* the shim defines get its initialiser, the others are the library's
Start(p) ==
  /\ pc = "build"
  /\ LinkedUnits(p) \subseteq DOMAIN objs
  /\ prog' = p
  /\ handles' = [h \in StreamSymbols |->
                   IF h \in Linked(p) THEN ShimStreamValue(h) ELSE HostStream]
  /\ pc' = IF Body(p) = <<>> THEN "runtime" ELSE "main"
  /\ UNCHANGED <<armEabi, objs, loopKept, stmt, locals, out, calls,
                 nullDeref, ret, exitCode, exitArg, ttyLog>>

----------------------------------------------------------------------------
(* The statements of main. *)

\* int a = 5;
ExecDecl ==
  /\ InMain("decl")
  /\ locals' = (Cur.var :> Cur.val) @@ locals
  /\ stmt' = stmt + 1
  /\ UNCHANGED <<armEabi, objs, loopKept, prog, pc, handles, out, calls,
                 nullDeref, ret, exitCode, exitArg, ttyLog>>

\* mutant: the sum is computed as a difference
ExecAddSub ==
  /\ InMain("add")
  /\ locals' = (Cur.var :> (locals[Cur.lhs] - locals[Cur.rhs])) @@ locals
  /\ stmt' = stmt + 1
  /\ UNCHANGED <<armEabi, objs, loopKept, prog, pc, handles, out, calls,
                 nullDeref, ret, exitCode, exitArg, ttyLog>>

\* int c = a + b;
ExecAdd ==
  /\ InMain("add")
  /\ locals' = (Cur.var :> (locals[Cur.lhs] + locals[Cur.rhs])) @@ locals
  /\ stmt' = stmt + 1
  /\ UNCHANGED <<armEabi, objs, loopKept, prog, pc, handles, out, calls,
                 nullDeref, ret, exitCode, exitArg, ttyLog>>

\* std::puts("...");
ExecPuts ==
  /\ InMain("puts")
  /\ out' = Puts(out, Cur.s)
  /\ Called(Cur)
  /\ stmt' = stmt + 1
  /\ UNCHANGED <<armEabi, objs, loopKept, prog, pc, handles, locals, ret,
                 exitCode, exitArg, ttyLog>>

\* std::printf("... %d ...", ...);
ExecPrintf ==
  /\ InMain("printf")
  /\ out' = Printf(out, Cur.fmt, [i \in 1 .. Len(Cur.args) |-> locals[Cur.args[i]]])
  /\ Called(Cur)
  /\ stmt' = stmt + 1
  /\ UNCHANGED <<armEabi, objs, loopKept, prog, pc, handles, locals, ret,
                 exitCode, exitArg, ttyLog>>

\* return 0; (return c; in the C variant).  On a host the process ends
\* with the low eight bits of the value as its exit code; on bare metal
\* control goes back to the startup code, which is not part of src/.
ExecReturn ==
  /\ InMain("return")
  /\ ret' = IF Cur.kind = "lit" THEN Cur.v ELSE locals[Cur.v]
  /\ pc' = IF armEabi THEN "returned" ELSE "terminated"
  /\ exitCode' = IF armEabi THEN NoCode ELSE ret' % 256
  /\ UNCHANGED <<armEabi, objs, loopKept, prog, stmt, handles, locals, out,
                 calls, nullDeref, exitArg, ttyLog>>

----------------------------------------------------------------------------
(* The callers of the shim's runtime functions: the library code of an      *)
(* executable linked with demos/cpp-modules/stdio_polyfill.cpp.            *)

\* isatty(fd) is called and returns
Call_isatty(fd) ==
  /\ pc = "runtime"
  /\ "isatty" \in Linked(prog)
  /\ Len(ttyLog) < MaxCalls
  /\ ttyLog' = Append(ttyLog, [fd |-> fd, result |-> isatty(fd)])
  /\ UNCHANGED <<armEabi, objs, loopKept, prog, pc, stmt, handles, locals,
                 out, calls, nullDeref, ret, exitCode, exitArg>>

\* _exit(status) is called
Call_exit(status) ==
  /\ pc = "runtime"
  /\ "_exit" \in Linked(prog)
  /\ pc' = "_exit"
  /\ exitArg' = status
  /\ UNCHANGED <<armEabi, objs, loopKept, prog, stmt, handles, locals, out,
                 calls, nullDeref, ret, exitCode, ttyLog>>

\* one turn of while (true) { continue; }
ExitLoop ==
  /\ pc = "_exit"
  /\ loopKept
  /\ UNCHANGED vars

\* the build dropped the loop: _exit has no code of its own and control
\* runs on into isatty, whose return goes back to the caller of _exit
ExitFallThrough ==
  /\ pc = "_exit"
  /\ ~loopKept
  /\ pc' = "exit_returned"
  /\ UNCHANGED <<armEabi, objs, loopKept, prog, stmt, handles, locals, out,
                 calls, nullDeref, ret, exitCode, exitArg, ttyLog>>

----------------------------------------------------------------------------

Next ==
  \/ \E u \in Units : Compile(u)
  \/ \E p \in Programs : Start(p)
  \/ ExecDecl
  \/ ExecAdd
  \/ ExecPuts
  \/ ExecPrintf
  \/ ExecReturn
  \/ \E fd \in FdSet : Call_isatty(fd)
  \/ \E status \in StatusSet : Call_exit(status)
  \/ ExitLoop
  \/ ExitFallThrough

Spec == Init /\ [][Next]_vars

----------------------------------------------------------------------------
(* Properties. *)

\* what the test package writes for a = 5, b = 12
TestPackageText == "Hello, world!\na = 5, b = 12\na + b = c = 17\n"

\* what the demo writes
DemoText ==
  "\n========== RUNNING DEMO ==========\n" \o
  "LLVM Toolchain Demo!\n" \o
  WavingHand \o " Hello, " \o Globe \o " World\n" \o
  "========== DEMO FINISHED ==========\n\n"

MainReturned == pc \in {"returned", "terminated"}

C2_IsattyConstant ==
  \A i \in 1 .. Len(ttyLog) : ttyLog[i].result = 1

\* C2 witness: isatty has been called with the least int, with 0 and with
\* the greatest int
C2_Witness ==
  /\ Len(ttyLog) >= 3
  /\ ttyLog[1].fd = IntMin
  /\ ttyLog[2].fd = 0
  /\ ttyLog[3].fd = IntMax

\* C3: in a build without __ARM_EABI__ no compiled unit defines stdout,
\* stderr, _exit or isatty, and a running executable has the library's
\* stream handles.
C3_NoShimWithoutMacro ==
  ~armEabi =>
    /\ \A u \in DOMAIN objs : objs[u] \cap ShimSymbols = {}
    /\ pc # "build" => \A h \in StreamSymbols : handles[h] = HostStream

\* C3 witness: every unit is compiled without the macro and a main runs
C3_Witness ==
  /\ ~armEabi
  /\ DOMAIN objs = Units
  /\ pc = "main"
  /\ prog = TestPackage

\* C4 as claimed: in a build with __ARM_EABI__ every compiled unit that
\* carries the shim defines both stream handles and both runtime functions.
C4_AllShimSymbolsEverywhere ==
  armEabi => \A u \in DOMAIN objs : ShimSymbols \subseteq objs[u]

\* C4 as amended: in a build with __ARM_EABI__ every compiled unit defines
\* both stream handles; demos/cpp-modules/stdio_polyfill.cpp also defines
\* _exit and isatty, and the other three units define neither.
C4_ShimSymbolsPerUnit ==
  armEabi =>
    \A u \in DOMAIN objs :
      /\ StreamSymbols \subseteq objs[u]
      /\ u = ModulesPolyfillUnit => RuntimeSymbols \subseteq objs[u]
      /\ u # ModulesPolyfillUnit => RuntimeSymbols \cap objs[u] = {}

\* C4 witness: all four units are compiled with the macro defined
C4_Witness ==
  /\ armEabi
  /\ DOMAIN objs = Units

\* C5: the hosted test package writes the three lines in order, with nothing
\* before, between or after them, and ends with exactly these lines on
\* standard output and exit code 0.
C5_TestPackageOutput ==
  (prog = TestPackage /\ ~armEabi) =>
    /\ out \in {"",
                "Hello, world!\n",
                "Hello, world!\na = 5, b = 12\n",
                TestPackageText}
    /\ pc = "terminated" => (out = TestPackageText /\ exitCode = 0)

\* C5 witness: the hosted test package has ended, with a = 5 and b = 12
C5_Witness ==
  /\ prog = TestPackage
  /\ ~armEabi
  /\ pc = "terminated"
  /\ locals["a"] = 5
  /\ locals["b"] = 12

C7_HandlesStayNull ==
  pc # "build" =>
    \A h \in StreamSymbols \cap Linked(prog) : handles[h] = nullptr

\* C7 witness: _exit is looping in an executable whose handles are the shim's
C7_Witness ==
  /\ pc = "_exit"
  /\ loopKept
  /\ StreamSymbols \subseteq Linked(prog)
  /\ Len(ttyLog) > 0

C9_NoNullDeref ==
  (pc # "build" /\ StreamSymbols \subseteq Linked(prog)) =>
    /\ ~nullDeref
    /\ \A i \in 1 .. Len(calls) :
         /\ calls[i].op \in {"puts", "printf"}
         /\ calls[i].stream = NoStream

\* C9 witness: a main has made all its calls with null stream handles
C9_Witness ==
  /\ prog = TestPackage
  /\ pc = "returned"
  /\ handles["stdout"] = nullptr
  /\ handles["stderr"] = nullptr
  /\ Len(calls) = 3

\* C10: what a demo main has written and returned when it ends is the same
\* with and without the shim: the text of its puts and printf calls, and 0.
C10_SameBehaviour ==
  (MainReturned /\ prog \in {TestPackage, DemoCpp}) =>
    /\ out = (IF prog = TestPackage THEN TestPackageText ELSE DemoText)
    /\ ret = 0

\* C10 witness: the demo has ended in a build with the shim
C10_Witness ==
  /\ armEabi
  /\ prog = DemoCpp
  /\ pc = "returned"
  /\ StreamSymbols \subseteq Linked(prog)
  /\ Len(calls) = 4

============================================================================
